---- MODULE Spec2Model ----
(***************************************************************************)
(* Model of src/src/linear_assignment.cpp: min_cost_matching,              *)
(* matching_cascade and gate_cost_matrix of the deep_sort data association. *)
(*                                                                         *)
(* Numbers.  Costs and max_distance are C++ floats.  They are modelled as  *)
(* integers counting units of 1e-5 (the epsilon of line 51), so 0.2 is     *)
(* 20000 and 256.0 is 25600000.  Gating distances are integers counting    *)
(* units of 1e-4 (9.4877 is 94877).  Vectors are 1-based sequences here    *)
(* and 0-based in the code: element i of a vector v is v[i + 1].           *)
(***************************************************************************)
EXTENDS Integers, Sequences, FiniteSets

VARIABLES
    tracks,                 \* vector<Track>: tracks[t].time_since_update_
    metric,                 \* the caller's distance_metric: selects a cost table
    max_distance,           \* float max_distance
    dim_skew,               \* <<dr, dc>>: rows/cols the metric returns beyond the lists' lengths
    gating,                 \* the motion model's gating distances (kf.gating_distance)
    pc,                     \* position of the caller
    track_indices,          \* argument track_indices (matching_cascade's working copy)
    detection_indices,      \* argument detection_indices
    cascade_depth,          \* argument cascade_depth
    level,                  \* loop variable of matching_cascade
    matches,                \* *matches
    unmatched_tracks,       \*  *unmatched_tracks
    unmatched_detections,   \* *unmatched_detections
    entry_matches,          \* *matches as the caller passed it in
    entry_track_indices,    \* track_indices as the caller passed it in
    metric_calls,           \* number of calls of distance_metric made by the call
    solver_calls,           \* number of calls of aps.Solve made by the call
    last,                   \* locals of the last solver round: cost matrix, vector, assignment
    rounds,                 \* matching_cascade: one record per min_cost_matching round
    gate                    \* gate_cost_matrix: its arguments and its result

vars == << tracks, metric, max_distance, dim_skew, gating, pc, track_indices,
           detection_indices, cascade_depth, level, matches, unmatched_tracks,
           unmatched_detections, entry_matches, entry_track_indices,
           metric_calls, solver_calls, last, rounds, gate >>

----------------------------------------------------------------------------
(* Bounds of the model *)

\* number of tracks in the caller's collection
MaxTracks == 3
\* number of detections in the caller's collection
MaxDets == 2
\* largest time_since_update_ and largest cascade_depth
MaxDepth == 3

Tracks == 0 .. (MaxTracks - 1)
Dets == 0 .. (MaxDets - 1)

----------------------------------------------------------------------------
(* Helpers on sequences and sets *)

Range(s) == { s[k] : k \in DOMAIN s }

Min2(a, b) == IF a <= b THEN a ELSE b

IsUnique(s) == \A p, q \in DOMAIN s : p # q => s[p] # s[q]

\* number of positions of s holding v
CountOf(s, v) == Cardinality({ k \in DOMAIN s : s[k] = v })

RECURSIVE Ascending(_)
Ascending(S) ==
    IF S = {} THEN << >>
    ELSE LET m == CHOOSE x \in S : \A y \in S : x <= y
         IN  << m >> \o Ascending(S \ {m})

Reversed(s) == [ k \in 1 .. Len(s) |-> s[Len(s) + 1 - k] ]

\* the index lists a caller passes: unique indices in ascending order, or
\* the whole collection in descending order
IndexLists(S) ==
    { Ascending(T) : T \in SUBSET S } \cup { Reversed(Ascending(S)) }

----------------------------------------------------------------------------
(* Numbers *)

\* 1.0 in units of the 1e-5 of line 51
Unit == 100000
\* the 1e-5 of line 51, in units of 1e-5
Eps == 1

\* cost_matrix is an Eigen::MatrixXf, so the bound max_distance + 1e-5 of
\* line 51 is stored as a float.  A float has a 24-bit significand: from 2^8
\* = 256.0 on, neighbouring floats are at least 2^-15 (about 3.05e-5) apart,
\* 1e-5 is less than half of that, and the sum rounds back to max_distance.
\* Below 256.0 the sum is a float above max_distance.
F32Absorb == 256 * Unit

ClampBound(md) == IF md >= F32Absorb THEN md ELSE md + Eps

\* the costs a metric returns: 0.1, 0.2 and 256.01
CostVals == << 10000, 20000, 25601000 >>
\* the thresholds a caller passes: 0.2 and 256.0
MaxDistances == { 20000, 25600000 }
\* the entry a metric returns outside the index lists (when it returns a
\* matrix larger than asked for)
PadCost == CostVals[1]

\* The caller's metric is a table over (track, detection), one of a family
\* indexed by three small numbers: constant tables, tables that vary by
\* track, by detection, or by both.
Metrics == [ a : 0 .. 1, b : 0 .. 1, c : 0 .. 2 ]

Cost(t, d) == CostVals[((metric.a * t + metric.b * d + metric.c) % 3) + 1]

----------------------------------------------------------------------------
(* Matrices: [rows, cols, at], at[<<i, j>>] with 0-based i and j *)

Cells(N, M) == (0 .. (N - 1)) \X (0 .. (M - 1))

Matrix(N, M, coefficients) == [ rows |-> N, cols |-> M, at |-> coefficients ]

\* distance_metric(tracks, detections, track_indices, detection_indices):
\* entry (i, j) is the cost of track_indices[i] and detection_indices[j].
\* dim_skew # <<0, 0>> is a metric that breaks its contract on the size.
distance_metric(ti, di) ==
    LET entry(i, j) == IF i < Len(ti) /\ j < Len(di)
                       THEN Cost(ti[i + 1], di[j + 1])
                       ELSE PadCost
        N == Len(ti) + dim_skew[1]
        M == Len(di) + dim_skew[2]
    IN  Matrix(N, M, [ p \in Cells(N, M) |-> entry(p[1], p[2]) ])

\* line 51: cost_matrix.array().min(max_distance + 1e-5)
Clamp(cm) ==
    LET entry(i, j) == Min2(cm.at[<< i, j >>], ClampBound(max_distance))
    IN  Matrix(cm.rows, cm.cols, [ p \in Cells(cm.rows, cm.cols) |-> entry(p[1], p[2]) ])

\* lines 58-60: resize(1, N*M) keeps the coefficients where they are stored,
\* and an Eigen::MatrixXf stores them column by column: data()[k] is the
\* coefficient (k mod N, k div N).
RowMajorData(cm) ==
    [ k \in 1 .. (cm.rows * cm.cols) |->
        cm.at[<< (k - 1) \div cm.cols, (k - 1) % cm.cols >>] ]

FlattenData(cm) ==
    [ k \in 1 .. (cm.rows * cm.cols) |->
        cm.at[<< (k - 1) % cm.rows, (k - 1) \div cm.rows >>] ]

----------------------------------------------------------------------------
(* The assignment solver (hungarian_alg.h) *)

\* the one-to-one assignments of N rows to M columns that cover min(N, M)
\* pairs; a row without a column holds -1
Assignments(N, M) ==
    { a \in [ 1 .. N -> -1 .. (M - 1) ] :
        /\ \A p, q \in 1 .. N : (p # q /\ a[p] # -1) => a[p] # a[q]
        /\ Cardinality({ p \in 1 .. N : a[p] # -1 }) = Min2(N, M) }

\* aps.Solve(cost_matrix_vec, N, M, assignment, optimal).  The result is a
\* complete one-to-one assignment; which one (the solver returns a cheapest
\* one) is left open.  The rows without a column hold -1, or all of them
\* hold 0 (the degenerate output that lines 76-85 repair).
Solve(vec, N, M) ==
    Assignments(N, M) \cup
    { [ r \in 1 .. N |-> IF a[r] = -1 THEN 0 ELSE a[r] ] : a \in Assignments(N, M) }

----------------------------------------------------------------------------
(* min_cost_matching, lines 5-110 *)

Match(t, d) == [ track_idx |-> t, detection_idx |-> d ]

\* lines 94, 96, 97: track_indices[row] and detection_indices[col] are
\* unchecked reads of a vector<int>.  Outside the list the read yields
\* whatever int lies behind the list's storage, and the source determines
\* nothing about it: any int, a value of its own for every such read.
Ints == (-2147483647 - 1) .. 2147483647

\* The program stores the value read in its outputs and compares it only
\* with indices of tracks (line 182).  So the ints fall into the indices,
\* each a case of its own, and all the other ints, which are one case and
\* are written AnyOtherInt: a slot that holds AnyOtherInt holds an int the
\* source does not determine, and a state with such slots stands for every
\* state that has in each of them an int that is no index.
AnyOtherInt == 2147483647

GarbageReads == (Tracks \cup Dets) \cup { AnyOtherInt }

\* the ints v that the case g of GarbageReads stands for
StandsFor(g, v) ==
    IF g = AnyOtherInt
    THEN v \in Ints /\ v \notin (Tracks \cup Dets)
    ELSE v = g

InBounds(v, i) == (i + 1) \in DOMAIN v

\* the reads of the row loop that fall outside the index lists, for the
\* corrected assignment a: << row, "track" >> is line 94 or 96 at that row,
\* << row, "detection" >> is line 97
OobReads(ti, di, a) ==
    { << r, "track" >> : r \in { q \in DOMAIN a : ~InBounds(ti, q - 1) } } \cup
    { << r, "detection" >> :
          r \in { q \in DOMAIN a : a[q] # -1 /\ ~InBounds(di, a[q]) } }

NoCrash == << 0, "none" >>

ReadAt(v, i, g, site) == IF InBounds(v, i) THEN v[i + 1] ELSE g[site]

\* lines 69-74: the detections no row of the raw assignment holds
LeftoverDetections(a, di) ==
    LET keep(k) == \A r \in DOMAIN a : a[r] # k - 1
        F[k \in 0 .. Len(di)] ==
            IF k = 0 THEN << >>
            ELSE IF keep(k) THEN Append(F[k - 1], di[k]) ELSE F[k - 1]
    IN  F[Len(di)]

\* lines 76-85: every 0 after the first one becomes -1
ZeroFixKeepAll(a) == a

ZeroFixKeepLast(a) ==
    LET zero_count == CountOf(a, 0)
    IN  IF zero_count > 1
        THEN LET keep == CHOOSE r \in DOMAIN a :
                             a[r] = 0 /\ \A q \in DOMAIN a : a[q] = 0 => q <= r
             IN  [ r \in DOMAIN a |-> IF a[r] = 0 /\ r # keep THEN -1 ELSE a[r] ]
        ELSE a

ZeroFix(a) ==
    LET zero_count == CountOf(a, 0)
    IN  IF zero_count > 1
        THEN LET first == CHOOSE r \in DOMAIN a :
                              a[r] = 0 /\ \A q \in DOMAIN a : a[q] = 0 => r <= q
             IN  [ r \in DOMAIN a |-> IF a[r] = 0 /\ r # first THEN -1 ELSE a[r] ]
        ELSE a

\* line 98: the test that demotes an assigned pair
Rejects(c, md) == c > md

\* lines 89-109, from row r on (r is 1-based).  A read outside an index
\* list is undefined behaviour: the read at site s yields g[s], and the read
\* at site crash (if any) ends the process there.
RECURSIVE ProcessRows(_, _, _, _, _, _, _, _)
ProcessRows(cm, a, ti, di, g, crash, r, acc) ==
    IF r > Len(a) \/ acc.crashed THEN acc
    ELSE
      LET col == a[r]
          oob == IF col = -1 THEN ~InBounds(ti, r - 1)
                 ELSE ~InBounds(ti, r - 1) \/ ~InBounds(di, col)
          track_idx == ReadAt(ti, r - 1, g, << r, "track" >>)
          detection_idx == ReadAt(di, col, g, << r, "detection" >>)
          next ==
            IF crash[1] = r THEN [ acc EXCEPT !.crashed = TRUE, !.oob = TRUE ]
            ELSE IF col = -1 THEN
                [ acc EXCEPT !.unmatched_tracks = Append(@, track_idx),
                             !.oob = @ \/ oob ]
            ELSE IF Rejects(cm.at[<< r - 1, col >>], max_distance) THEN
                [ acc EXCEPT !.unmatched_tracks = Append(@, track_idx),
                             !.unmatched_detections = Append(@, detection_idx),
                             !.oob = @ \/ oob ]
            ELSE
                [ acc EXCEPT !.matches = Append(@, Match(track_idx, detection_idx)),
                             !.oob = @ \/ oob ]
      IN  ProcessRows(cm, a, ti, di, g, crash, r + 1, next)

NoRound == [ called |-> FALSE ]

\* lines 42-47
ShortCircuits(ti, di) == Len(ti) < 1 \/ Len(di) < 1

\* lines 49-51: the clamped cost matrix
ClampedMatrix(ti, di) == Clamp(distance_metric(ti, di))

\* the raw assignments the solver may return for this call (none is asked
\* for when the call short-circuits)
SolverResults(ti, di) ==
    IF ShortCircuits(ti, di) THEN { << >> }
    ELSE LET cm == ClampedMatrix(ti, di)
         IN  Solve(FlattenData(cm), cm.rows, cm.cols)

\* The whole function.  m0 is *matches at entry; a is the solver's raw
\* assignment; g gives the value of each read outside the index lists and crash
\* the one (if any) that ends the process.
\* The result holds the three outputs and what the call did.
ShortCircuit(ti, di, m0) ==
    [ matches |-> m0, unmatched_tracks |-> ti, unmatched_detections |-> di,
      oob |-> FALSE, crashed |-> FALSE,
      metric_calls |-> 0, solver_calls |-> 0, round |-> NoRound ]

min_cost_matching(ti, di, m0, a, g, crash) ==
    IF ShortCircuits(ti, di) THEN ShortCircuit(ti, di, m0)
    ELSE
      LET cost_matrix == ClampedMatrix(ti, di)
          cost_matrix_vec == FlattenData(cost_matrix)
          assignment == ZeroFix(a)
          start == [ matches |-> << >>, unmatched_tracks |-> << >>,
                     unmatched_detections |-> LeftoverDetections(a, di),
                     oob |-> FALSE, crashed |-> FALSE ]
          out == ProcessRows(cost_matrix, assignment, ti, di, g, crash, 1, start)
      IN  [ matches |-> out.matches,
            unmatched_tracks |-> out.unmatched_tracks,
            unmatched_detections |-> out.unmatched_detections,
            oob |-> out.oob, crashed |-> out.crashed,
            metric_calls |-> 1, solver_calls |-> 1,
            round |-> [ called |-> TRUE,
                        track_indices |-> ti, detection_indices |-> di,
                        N |-> cost_matrix.rows, M |-> cost_matrix.cols,
                        cost_matrix |-> cost_matrix,
                        cost_matrix_vec |-> cost_matrix_vec,
                        raw |-> a, assignment |-> assignment,
                        oob |-> out.oob, crashed |-> out.crashed ] ]

----------------------------------------------------------------------------
(* matching_cascade, lines 112-189 *)

\* lines 163-167: the tracks of the working list at this level
LevelOfTrackOffByOne(t) == tracks[t].time_since_update_

LevelOfTrack(t) == tracks[t].time_since_update_ - 1

SelectLevel(ti, lvl) ==
    LET atLevel(t) == LevelOfTrack(t) = lvl
    IN  SelectSeq(ti, atLevel)

\* lines 181-184: erase the first occurrence of t, if there is one
EraseTrack(ti, t) ==
    IF t \in Range(ti)
    THEN LET k == CHOOSE i \in DOMAIN ti : ti[i] = t /\ \A j \in DOMAIN ti : ti[j] = t => i <= j
         IN  SubSeq(ti, 1, k - 1) \o SubSeq(ti, k + 1, Len(ti))
    ELSE ti

\* lines 177-185: the working list after the round's matches are erased
RECURSIVE EraseMatched(_, _)
EraseMatched(ti, ms) ==
    IF ms = << >> THEN ti
    ELSE EraseMatched(EraseTrack(ti, Head(ms).track_idx), Tail(ms))

----------------------------------------------------------------------------
(* The caller's state *)

\* the output vectors a caller passes: fresh ones, or the ones that still
\* hold the previous frame's result
StaleOutputs ==
    { [ matches |-> << >>, unmatched_tracks |-> << >>, unmatched_detections |-> << >> ],
      [ matches |-> << Match(0, 0) >>, unmatched_tracks |-> << 1 >>,
        unmatched_detections |-> << 1 >> ] }

\* tracks, ordered by staleness: time_since_update_ starts at 1 and grows by
\* at most one from a track to the next
TrackWorlds ==
    { w \in [ Tracks -> [ time_since_update_ : 1 .. MaxDepth ] ] :
        /\ w[0].time_since_update_ = 1
        /\ \A t \in Tracks \ {0} :
              w[t].time_since_update_ - w[t - 1].time_since_update_ \in { 0, 1 } }

FreshTracks == [ t \in Tracks |-> [ time_since_update_ |-> 1 ] ]

NoGate == [ called |-> FALSE ]

InitCall ==
    /\ pc = "idle"
    /\ track_indices = << >>
    /\ entry_track_indices = << >>
    /\ detection_indices = << >>
    /\ cascade_depth = 0
    /\ level = 0
    /\ \E o \in StaleOutputs :
          /\ matches = o.matches
          /\ unmatched_tracks = o.unmatched_tracks
          /\ unmatched_detections = o.unmatched_detections
          /\ entry_matches = o.matches
    /\ metric_calls = 0
    /\ solver_calls = 0
    /\ last = NoRound
    /\ rounds = << >>
    /\ gate = NoGate

\* the outcomes of the reads outside the index lists in a call whose
\* corrected assignment is a: a value for each such read, and the read (if
\* any) at which the process dies.  When the metric keeps to the size asked
\* for there is no such read and one outcome.
Outcomes(ti, di, a) ==
    LET sites == OobReads(ti, di, a)
    IN  [ g : [ sites -> GarbageReads ], crash : sites \cup { NoCrash } ]

\* the caller calls min_cost_matching(.., matches, unmatched_tracks,
\* unmatched_detections, ti, di)
MinCostMatching ==
    /\ pc = "idle"
    /\ \E ti \in IndexLists(Tracks), di \in IndexLists(Dets) :
         \E a \in SolverResults(ti, di) : \E u \in Outcomes(ti, di, ZeroFix(a)) :
              \E res \in { min_cost_matching(ti, di, matches, a, u.g, u.crash) } :
                  /\ pc' = IF res.crashed THEN "crashed" ELSE "mcm_returned"
                  /\ track_indices' = ti
                  /\ entry_track_indices' = ti
                  /\ detection_indices' = di
                  /\ matches' = res.matches
                  /\ unmatched_tracks' = res.unmatched_tracks
                  /\ unmatched_detections' = res.unmatched_detections
                  /\ metric_calls' = res.metric_calls
                  /\ solver_calls' = res.solver_calls
                  /\ last' = res.round
    /\ UNCHANGED << tracks, metric, max_distance, dim_skew, gating, cascade_depth,
                    level, entry_matches, rounds, gate >>

\* line 157: the caller calls matching_cascade(.., depth, .., ti, di)
CascadeBegin ==
    /\ pc = "idle"
    /\ \E ti \in IndexLists(Tracks), di \in IndexLists(Dets), depth \in 0 .. MaxDepth :
         /\ track_indices' = ti
         /\ entry_track_indices' = ti
         /\ detection_indices' = di
         /\ cascade_depth' = depth
         /\ unmatched_detections' = di
    /\ level' = 0
    /\ pc' = "cascade_loop"
    /\ UNCHANGED << tracks, metric, max_distance, dim_skew, gating, matches,
                    unmatched_tracks, entry_matches, metric_calls, solver_calls,
                    last, rounds, gate >>

\* lines 158-186: one iteration of the loop
CascadeLevel ==
    /\ pc = "cascade_loop"
    /\ level < cascade_depth
    /\ LET track_indices_l == SelectLevel(track_indices, level)
           break == Len(unmatched_detections) < 1
           skip == Len(track_indices_l) < 1
       IN  IF break THEN
               /\ pc' = "cascade_exit"
               /\ UNCHANGED << track_indices, level, matches, unmatched_detections,
                               metric_calls, solver_calls, last, rounds >>
           ELSE IF skip THEN
               /\ level' = level + 1
               /\ UNCHANGED << pc, track_indices, matches, unmatched_detections,
                               metric_calls, solver_calls, last, rounds >>
           ELSE
               \E a \in SolverResults(track_indices_l, unmatched_detections) :
                \E u \in Outcomes(track_indices_l, unmatched_detections, ZeroFix(a)) :
                 \E res \in { min_cost_matching(track_indices_l, unmatched_detections,
                                                 << >>, a, u.g, u.crash) } :
                     /\ pc' = IF res.crashed THEN "crashed" ELSE "cascade_loop"
                     \* lines 177-185 run only once the call has returned:
                     \* a call that dies leaves its pairs in the local matches_l
                     /\ matches' = IF res.crashed THEN matches
                                   ELSE matches \o res.matches
                     /\ track_indices' =
                            IF res.crashed THEN track_indices
                            ELSE EraseMatched(track_indices, res.matches)
                     /\ unmatched_detections' = res.unmatched_detections
                     /\ level' = IF res.crashed THEN level ELSE level + 1
                     /\ metric_calls' = metric_calls + res.metric_calls
                     /\ solver_calls' = solver_calls + res.solver_calls
                     /\ last' = res.round
                     /\ rounds' = Append(rounds,
                            [ level |-> level,
                              working |-> track_indices,
                              track_indices_l |-> track_indices_l,
                              offered |-> unmatched_detections,
                              matches_l |-> res.matches,
                              unmatched_tracks_l |-> res.unmatched_tracks,
                              leftover |-> res.unmatched_detections ])
    /\ UNCHANGED << tracks, metric, max_distance, dim_skew, gating, detection_indices,
                    cascade_depth, unmatched_tracks, entry_matches,
                    entry_track_indices, gate >>

\* line 187, after the loop ended or broke off
CascadeReturn ==
    /\ \/ pc = "cascade_exit"
       \/ pc = "cascade_loop" /\ level >= cascade_depth
    /\ unmatched_tracks' = track_indices
    /\ pc' = "cascade_returned"
    /\ UNCHANGED << tracks, metric, max_distance, dim_skew, gating, track_indices,
                    detection_indices, cascade_depth, level, matches,
                    unmatched_detections, entry_matches, entry_track_indices,
                    metric_calls, solver_calls, last, rounds, gate >>

----------------------------------------------------------------------------
(* gate_cost_matrix, lines 192-254 *)

\* chi2inv95 (declared in a header): the 0.95 quantiles of the chi-squared
\* distribution for 1 .. 9 degrees of freedom, in units of 1e-4
chi2inv95 == << 38415, 59915, 78147, 94877, 110700, 125920, 140670, 155070, 169190 >>

\* the squared distances the motion model returns: 5.9915, 9.4877, 9.4878
GateVals == << 59915, 94877, 94878 >>

\* the motion model is one of a family of tables over (track, detection)
Gatings == [ a : 0 .. 1, b : 0 .. 1, c : 0 .. 2 ]

\* kf.gating_distance(track.mean_, track.cov_, measurements, only_position),
\* its entry for the measurement of detection d
gating_distance(t, d, only_position) ==
    GateVals[((gating.a * t + gating.b * d + gating.c
               + (IF only_position THEN 1 ELSE 0)) % 3) + 1]

\* the gated_cost a caller passes: 1000.0
GatedCosts == { 1000 * Unit }

\* lines 229-233
GatingDim(only_position) == IF only_position THEN 2 ELSE 4

\* line 250
ExceedsOrEquals(d, threshold) == d >= threshold

Exceeds(d, threshold) == d > threshold

\* the whole function: line 246 reads the track track_indices[i], lines
\* 236-241 build measurement j from the detection detection_indices[j]
gate_cost_matrix(cost_matrix, ti, di, gated_cost, only_position) ==
    LET gating_threshold == chi2inv95[GatingDim(only_position)]
        entry(i, j) ==
            IF Exceeds(gating_distance(ti[i + 1], di[j + 1], only_position),
                       gating_threshold)
            THEN gated_cost
            ELSE cost_matrix.at[<< i, j >>]
    IN  Matrix(cost_matrix.rows, cost_matrix.cols,
               [ p \in Cells(cost_matrix.rows, cost_matrix.cols) |-> entry(p[1], p[2]) ])

\* the caller gates the cost matrix its metric computed for ti and di
GateCostMatrix ==
    /\ pc = "idle"
    /\ \E ti \in IndexLists(Tracks), di \in IndexLists(Dets),
          gated_cost \in GatedCosts, only_position \in BOOLEAN :
         \E cm \in { distance_metric(ti, di) } :
           gate' = [ called |-> TRUE,
                     track_indices |-> ti, detection_indices |-> di,
                     gated_cost |-> gated_cost, only_position |-> only_position,
                     cost_matrix |-> cm,
                     result |-> gate_cost_matrix(cm, ti, di, gated_cost, only_position) ]
    /\ pc' = "gate_returned"
    /\ UNCHANGED << tracks, metric, max_distance, dim_skew, gating, track_indices,
                    detection_indices, cascade_depth, level, matches,
                    unmatched_tracks, unmatched_detections, entry_matches,
                    entry_track_indices, metric_calls, solver_calls, last, rounds >>

----------------------------------------------------------------------------
(* Specifications *)

NoGating == [ a |-> 0, b |-> 0, c |-> 0 ]

\* min_cost_matching with a metric that returns the size asked for
Init ==
    /\ tracks = FreshTracks
    /\ metric \in Metrics
    /\ max_distance \in MaxDistances
    /\ dim_skew = << 0, 0 >>
    /\ gating = NoGating
    /\ InitCall

Next == MinCostMatching

Spec == Init /\ [][Next]_vars

\* min_cost_matching with a metric that returns a matrix with one row, one
\* column or one of each more than asked for
DimSkews == { << 1, 0 >>, << 0, 1 >>, << 1, 1 >> }

InitDim ==
    /\ tracks = FreshTracks
    /\ metric \in Metrics
    /\ max_distance \in MaxDistances
    /\ dim_skew \in DimSkews
    /\ gating = NoGating
    /\ InitCall

SpecDim == InitDim /\ [][Next]_vars

\* matching_cascade over tracks of several ages
InitCascade ==
    /\ tracks \in TrackWorlds
    /\ metric \in Metrics
    /\ max_distance \in { CostVals[2] }
    /\ dim_skew = << 0, 0 >>
    /\ gating = NoGating
    /\ InitCall

NextCascade == CascadeBegin \/ CascadeLevel \/ CascadeReturn

SpecCascade == InitCascade /\ [][NextCascade]_vars

\* gate_cost_matrix
InitGate ==
    /\ tracks = FreshTracks
    /\ metric \in Metrics
    /\ max_distance \in { CostVals[2] }
    /\ dim_skew = << 0, 0 >>
    /\ gating \in Gatings
    /\ InitCall

NextGate == GateCostMatrix

SpecGate == InitGate /\ [][NextGate]_vars

----------------------------------------------------------------------------
(* Properties *)

TrackSide(ms) == [ k \in DOMAIN ms |-> ms[k].track_idx ]
DetSide(ms) == [ k \in DOMAIN ms |-> ms[k].detection_idx ]

\* every element of the unique list input is in s exactly once, and s holds
\* nothing else
ExactlyOnceEach(s, input) ==
    /\ \A v \in Range(input) : CountOf(s, v) = 1
    /\ Range(s) \subseteq Range(input)

\* the call went through the solver (neither index list was empty)
SolverRound == pc = "mcm_returned" /\ last.called

\* C1: after a call of min_cost_matching that reached the solver, whatever
\* assignment the solver returned (several rows holding 0 included), every
\* index of track_indices is exactly once in the tracks of matches followed by
\* unmatched_tracks, every index of detection_indices is exactly once in the
\* detections of matches followed by unmatched_detections, and the output
\* lists hold no other value.
MinCostMatchingPartitions ==
    SolverRound =>
        /\ ExactlyOnceEach(TrackSide(matches) \o unmatched_tracks, track_indices)
        /\ ExactlyOnceEach(DetSide(matches) \o unmatched_detections, detection_indices)

\* a solver round whose raw assignment holds 0 in several rows and that
\* produced a match, an unmatched track and an unmatched detection
MinCostMatchingPartitionsWitness ==
    /\ SolverRound
    /\ CountOf(last.raw, 0) > 1
    /\ matches # << >>
    /\ unmatched_tracks # << >>
    /\ unmatched_detections # << >>

\* C2 (as claimed): during and after matching_cascade, every index of the
\* track_indices passed in is exactly once in the tracks of matches followed
\* by the working list (after the last level: by unmatched_tracks), and every
\* index of detection_indices is exactly once in the detections of matches
\* followed by unmatched_detections.
CascadePartitions ==
    /\ pc \in { "cascade_loop", "cascade_exit" } =>
          /\ ExactlyOnceEach(TrackSide(matches) \o track_indices, entry_track_indices)
          /\ ExactlyOnceEach(DetSide(matches) \o unmatched_detections, detection_indices)
    /\ pc = "cascade_returned" =>
          /\ ExactlyOnceEach(TrackSide(matches) \o unmatched_tracks, entry_track_indices)
          /\ ExactlyOnceEach(DetSide(matches) \o unmatched_detections, detection_indices)

\* C3 (as claimed): no Match that min_cost_matching emits pairs a track and a
\* detection whose cost, as the metric returned it, is greater than
\* max_distance.
NoMatchAboveMaxDistance ==
    SolverRound =>
        \A k \in DOMAIN matches :
            Cost(matches[k].track_idx, matches[k].detection_idx) <= max_distance

\* the matches the rounds before round k of this cascade call produced
RECURSIVE ProducedBefore(_)
ProducedBefore(k) ==
    IF k <= 1 THEN << >> ELSE ProducedBefore(k - 1) \o rounds[k - 1].matches_l

Produced == ProducedBefore(Len(rounds) + 1)

\* the three-track scenario: tracks of age 1, 2 and 3, one detection that
\* costs the same, at most max_distance, for each of them, depth >= 3
StagingScenario ==
    /\ Len(entry_track_indices) = 3
    /\ Len(detection_indices) = 1
    /\ { tracks[t].time_since_update_ : t \in Range(entry_track_indices) } = { 1, 2, 3 }
    /\ \A t \in Range(entry_track_indices) :
          /\ Cost(t, detection_indices[1]) <= max_distance
          /\ \A u \in Range(entry_track_indices) :
                Cost(t, detection_indices[1]) = Cost(u, detection_indices[1])
    /\ cascade_depth >= 3

\* C4: the round of matching_cascade at level L is given exactly the tracks
\* of the list passed in that are of age L + 1 and in no earlier match, and
\* exactly the detections passed in that are in no earlier match; the rounds
\* run in increasing order of level; and in the three-track scenario the
\* track of age 1 is matched and the other two are returned unmatched.
CascadeStaging ==
    /\ \A k \in DOMAIN rounds :
          LET r == rounds[k]
              before == ProducedBefore(k)
              young(t) == /\ tracks[t].time_since_update_ = r.level + 1
                          /\ t \notin Range(TrackSide(before))
          IN  /\ r.track_indices_l = SelectSeq(entry_track_indices, young)
              /\ Range(r.offered) = Range(detection_indices) \ Range(DetSide(before))
              /\ IsUnique(r.offered)
              /\ k > 1 => rounds[k - 1].level < r.level
    /\ (pc = "cascade_returned" /\ StagingScenario) =>
          \E t \in Range(entry_track_indices) :
              /\ tracks[t].time_since_update_ = 1
              /\ Produced = << Match(t, detection_indices[1]) >>
              /\ Match(t, detection_indices[1]) \in Range(matches)
              /\ Range(unmatched_tracks) = Range(entry_track_indices) \ {t}

\* the three-track scenario, after the call returned
CascadeStagingWitness ==
    /\ pc = "cascade_returned"
    /\ StagingScenario
    /\ Len(rounds) = 1

\* C5 (as claimed): a call of min_cost_matching with an empty track_indices
\* returns empty matches, empty unmatched_tracks and unmatched_detections
\* equal to detection_indices; with an empty detection_indices it reports
\* every track unmatched; neither calls the metric or the solver.
EmptyInputShortCircuits ==
    pc = "mcm_returned" =>
        /\ Len(track_indices) = 0 =>
              /\ matches = << >>
              /\ unmatched_tracks = << >>
              /\ unmatched_detections = detection_indices
              /\ metric_calls = 0 /\ solver_calls = 0
        /\ Len(detection_indices) = 0 =>
              /\ matches = << >>
              /\ unmatched_tracks = track_indices
              /\ unmatched_detections = << >>
              /\ metric_calls = 0 /\ solver_calls = 0

\* C6 (as claimed): when the metric returns a matrix whose size is not
\* (len(track_indices), len(detection_indices)), the solver is not called,
\* matches is as the caller passed it, and no index list is read outside its
\* bounds.
DimensionMismatchRejected ==
    (/\ pc \in { "mcm_returned", "crashed" }
     /\ metric_calls > 0
     /\ dim_skew # << 0, 0 >>) =>
        /\ solver_calls = 0
        /\ matches = entry_matches
        /\ ~last.oob

\* C7: entry (i, j) of the matrix gate_cost_matrix returns is gated_cost when
\* the gating distance of track track_indices[i] and detection
\* detection_indices[j] is greater than the chi-squared threshold for 2
\* (only_position) or 4 degrees of freedom, and is the entry of the matrix
\* passed in otherwise, in particular when the distance equals the threshold.
GateMarksAboveThreshold ==
    gate.called =>
        LET threshold == IF gate.only_position THEN 59915 ELSE 94877
        IN  /\ gate.result.rows = Len(gate.track_indices)
            /\ gate.result.cols = Len(gate.detection_indices)
            /\ \A i \in 0 .. (Len(gate.track_indices) - 1),
                  j \in 0 .. (Len(gate.detection_indices) - 1) :
                  LET t == gate.track_indices[i + 1]
                      d == gate.detection_indices[j + 1]
                  IN  gate.result.at[<< i, j >>] =
                          IF gating_distance(t, d, gate.only_position) > threshold
                          THEN gate.gated_cost
                          ELSE Cost(t, d)

\* a gated matrix with an entry whose distance equals the threshold and an
\* entry whose distance is above it
GateMarksAboveThresholdWitness ==
    /\ gate.called
    /\ \E i \in 0 .. (Len(gate.track_indices) - 1),
          j \in 0 .. (Len(gate.detection_indices) - 1) :
          /\ gating_distance(gate.track_indices[i + 1], gate.detection_indices[j + 1],
                             gate.only_position)
                = chi2inv95[IF gate.only_position THEN 2 ELSE 4]
          /\ gate.result.at[<< i, j >>] # gate.gated_cost
    /\ \E i \in 0 .. (Len(gate.track_indices) - 1),
          j \in 0 .. (Len(gate.detection_indices) - 1) :
          gate.result.at[<< i, j >>] = gate.gated_cost

\* C8 (as claimed): the matches matching_cascade returns are exactly the
\* pairs its own rounds produced, whatever the caller's matches held before.
CascadeMatchesAreOwn ==
    pc = "cascade_returned" => matches = Produced

\* C9: when the raw assignment holds 0 in more than one row, the lowest such
\* row keeps 0 and is emitted as a Match or demoted, the other such rows
\* become -1 and their tracks are unmatched, detection_indices[0] is in the
\* outputs exactly once, and no column is left in two rows; when at most one
\* row holds 0 the assignment is left as the solver returned it.
ZeroColumnCorrected ==
    SolverRound =>
        LET raw == last.raw
            asg == last.assignment
            zeros == { r \in DOMAIN raw : raw[r] = 0 }
        IN  IF Cardinality(zeros) > 1
            THEN LET first == CHOOSE r \in zeros : \A q \in zeros : r <= q
                     t == track_indices[first]
                     d == detection_indices[1]
                 IN  /\ asg[first] = 0
                     /\ \A r \in zeros \ {first} :
                           /\ asg[r] = -1
                           /\ track_indices[r] \in Range(unmatched_tracks)
                     /\ \A r \in (DOMAIN raw) \ zeros : asg[r] = raw[r]
                     /\ \/ /\ Match(t, d) \in Range(matches)
                           /\ t \notin Range(unmatched_tracks)
                        \/ /\ t \in Range(unmatched_tracks)
                           /\ d \in Range(unmatched_detections)
                           /\ t \notin Range(TrackSide(matches))
                     /\ CountOf(DetSide(matches) \o unmatched_detections, d) = 1
                     /\ \A c \in 0 .. (last.M - 1) : CountOf(asg, c) <= 1
            ELSE asg = raw

\* a round whose raw assignment held 0 in several rows, the lowest of which
\* was demoted by the threshold test
ZeroColumnCorrectedWitness ==
    /\ SolverRound
    /\ CountOf(last.raw, 0) > 1
    /\ matches = << >>
    /\ detection_indices[1] \in Range(unmatched_detections)

\* position k (0-based) of the vector handed to the solver holds the clamped
\* cost of track_indices[i] and detection_indices[j]: the metric's cost when
\* that is at most max_distance, and otherwise a value above or at
\* max_distance and at most max_distance + epsilon
HoldsClampedCost(k, i, j) ==
    LET e == last.cost_matrix_vec[k + 1]
        c == Cost(track_indices[i + 1], detection_indices[j + 1])
    IN  /\ e = last.cost_matrix.at[<< i, j >>]
        /\ c <= max_distance => e = c
        /\ c > max_distance => (e >= max_distance /\ e <= max_distance + Eps)

\* C10 (as claimed): the vector handed to the solver is the clamped matrix
\* row by row: position i*M + j holds the clamped cost of (i, j).
CostVectorRowMajor ==
    SolverRound =>
        \A i \in 0 .. (last.N - 1), j \in 0 .. (last.M - 1) :
            HoldsClampedCost(i * last.M + j, i, j)

\* C10 (amended): the vector handed to the solver is the clamped matrix
\* column by column: position j*N + i holds the clamped cost of (i, j), and
\* every entry is at most max_distance + epsilon.
CostVectorColumnMajor ==
    SolverRound =>
        /\ Len(last.cost_matrix_vec) = last.N * last.M
        /\ last.N = Len(track_indices) /\ last.M = Len(detection_indices)
        /\ \A i \in 0 .. (last.N - 1), j \in 0 .. (last.M - 1) :
              HoldsClampedCost(j * last.N + i, i, j)
        /\ \A k \in DOMAIN last.cost_matrix_vec :
              last.cost_matrix_vec[k] <= max_distance + Eps

\* a round over at least two tracks and two detections whose matrix is not
\* symmetric and has a clamped entry
CostVectorColumnMajorWitness ==
    /\ SolverRound
    /\ last.N >= 2 /\ last.M >= 2
    /\ last.cost_matrix.at[<< 0, 1 >>] # last.cost_matrix.at[<< 1, 0 >>]
    /\ \E i \in 0 .. (last.N - 1), j \in 0 .. (last.M - 1) :
          Cost(track_indices[i + 1], detection_indices[j + 1]) > max_distance

====
